---------------------------- MODULE Spec2Model ----------------------------
(***************************************************************************)
(* ChazeFashion catalog application: the persistent store (models.py) and  *)
(* the request handlers (views.py) as a state machine.                     *)
(*                                                                         *)
(* Text coming from a request (a quantity, a price bound, a search term)   *)
(* is a tuple of one-character strings, so that int() and float() are      *)
(* modelled by what they do with the characters.                           *)
(***************************************************************************)
EXTENDS Integers, Sequences, FiniteSets, TLC

VARIABLES
    users,         \* User rows (usernames)
    carts,         \* Cart rows          [id, user]
    profiles,      \* UserProfile rows   [id, user]
    wishlists,     \* Wishlist rows      [id, user]
    cartItems,     \* CartItem rows      [id, cart, product, quantity]
    wishProducts,  \* Wishlist.products through-table rows [id, wishlist, product]
    seq,           \* the AutoField sequences, by table
    resp,          \* the last request handled and the response it got
    pc,            \* position of each in-flight request
    loc,           \* local variables of each in-flight request
    faults         \* storage failures injected so far

vars == <<users, carts, profiles, wishlists, cartItems, wishProducts,
          seq, resp, pc, loc, faults>>

-----------------------------------------------------------------------------
(* Bounds of the model *)

\* largest CartItem quantity the add-item merge is followed to
MaxQty == 2
\* largest CartItem id handed out
MaxItemId == 2
\* storage failures injected during one registration
MaxFaults == 1

Users == {"a", "b"}
\* pr_id values a cart or wishlist URL carries: two products and an unknown id
ProductIdInputs == {1, 2, 9}
\* the Product rows; pr_price in cents, text attributes as character tuples
Catalog ==
    {[pr_id |-> 1, pr_cate |-> "Men", pr_season |-> "Summer",
      pr_fabric |-> <<"C", "o">>, pr_brand |-> <<"Z">>, pr_price |-> 2000],
     [pr_id |-> 2, pr_cate |-> "Men", pr_season |-> "Winter",
      pr_fabric |-> <<"W", "o">>, pr_brand |-> <<"a", "Z">>, pr_price |-> 10000],
     [pr_id |-> 3, pr_cate |-> "Women", pr_season |-> "Summer",
      pr_fabric |-> <<"c", "O">>, pr_brand |-> <<"a">>, pr_price |-> 10050]}

Products == {c.pr_id : c \in Catalog}

Price == [p \in Products |-> (CHOOSE c \in Catalog : c.pr_id = p).pr_price]

-----------------------------------------------------------------------------
(* Text and number conversions *)

Digits == {"0", "1", "2", "3", "4", "5", "6", "7", "8", "9"}

DigitVal(c) ==
    CASE c = "0" -> 0 [] c = "1" -> 1 [] c = "2" -> 2 [] c = "3" -> 3
      [] c = "4" -> 4 [] c = "5" -> 5 [] c = "6" -> 6 [] c = "7" -> 7
      [] c = "8" -> 8 [] c = "9" -> 9

RECURSIVE LStrip(_)
LStrip(s) ==
    IF Len(s) > 0 /\ s[1] = " " THEN LStrip(Tail(s)) ELSE s

RECURSIVE RStrip(_)
RStrip(s) ==
    IF Len(s) > 0 /\ s[Len(s)] = " " THEN RStrip(SubSeq(s, 1, Len(s) - 1)) ELSE s

Strip(s) == RStrip(LStrip(s))

RECURSIVE DecVal(_)
DecVal(s) ==
    IF Len(s) = 0 THEN 0
    ELSE 10 * DecVal(SubSeq(s, 1, Len(s) - 1)) + DigitVal(s[Len(s)])

AllDigits(s) == \A i \in 1..Len(s) : s[i] \in Digits

\* Python's int(str): surrounding blanks dropped, an optional sign, then
\* one or more digits; anything else raises ValueError (ok = FALSE).
IntOfStr(s) ==
    LET t      == Strip(s)
        signed == Len(t) > 0 /\ t[1] \in {"+", "-"}
        body   == IF signed THEN Tail(t) ELSE t
    IN  IF Len(body) = 0 \/ ~AllDigits(body)
        THEN [ok |-> FALSE, val |-> 0]
        ELSE [ok |-> TRUE,
              val |-> (IF signed /\ t[1] = "-" THEN -1 ELSE 1) * DecVal(body)]


RECURSIVE Pow10(_)
Pow10(n) == IF n = 0 THEN 1 ELSE 10 * Pow10(n - 1)

\* Python's float(str) on decimal literals: surrounding blanks dropped, an
\* optional sign, digits with at most one point and at least one digit; the
\* value is num / den. Anything else here raises ValueError (ok = FALSE).
\* Exponents and the literals inf and nan are not among the modelled inputs.
FloatOfStr(s) ==
    LET t      == Strip(s)
        signed == Len(t) > 0 /\ t[1] \in {"+", "-"}
        body   == IF signed THEN Tail(t) ELSE t
        dots   == {i \in 1..Len(body) : body[i] = "."}
        d      == IF dots = {} THEN Len(body) + 1 ELSE CHOOSE i \in dots : TRUE
        whole  == SubSeq(body, 1, d - 1)
        frac   == SubSeq(body, d + 1, Len(body))
    IN  IF Cardinality(dots) > 1 \/ Len(whole) + Len(frac) = 0
           \/ ~AllDigits(whole) \/ ~AllDigits(frac)
        THEN [ok |-> FALSE, num |-> 0, den |-> 1]
        ELSE [ok |-> TRUE,
              num |-> (IF signed /\ t[1] = "-" THEN -1 ELSE 1) * DecVal(whole \o frac),
              den |-> Pow10(Len(frac))]

\* str.lower() on the letters the catalog and the queries use
LowerChar(c) ==
    CASE c = "A" -> "a" [] c = "C" -> "c" [] c = "O" -> "o"
      [] c = "W" -> "w" [] c = "Z" -> "z" [] OTHER -> c

\* the __icontains lookup: needle occurs in hay, letter case ignored
IContains(hay, needle) ==
    \E i \in 0..(Len(hay) - Len(needle)) :
        \A j \in 1..Len(needle) : LowerChar(hay[i + j]) = LowerChar(needle[j])

-----------------------------------------------------------------------------
(* The store, as the ORM calls of views.py use it *)

NoResp ==
    [op |-> "none", user |-> "", arg |-> 0, msg |-> "", total |-> {},
     foreign |-> FALSE]

InitSeq == [cart |-> 1, profile |-> 1, wishlist |-> 1, item |-> 1, wish |-> 1]

\* QuerySet.get_or_create(user=u) run without interleaving: the row of u when
\* there is one, a new row otherwise. next is the table's AutoField sequence.
GetOrCreateByUser(rows, next, u) ==
    LET found == {r \in rows : r.user = u}
    IN  IF found # {}
        THEN [rows |-> rows, next |-> next, created |-> FALSE,
              row |-> CHOOSE r \in found : TRUE]
        ELSE LET new == [id |-> next, user |-> u]
             IN  [rows |-> rows \cup {new}, next |-> next + 1,
                  created |-> TRUE, row |-> new]

\* sum(item.product.pr_price * item.quantity for item in cart_items)
RECURSIVE SumSeq(_)
SumSeq(s) ==
    IF Len(s) = 0 THEN 0
    ELSE Price[s[1].product] * s[1].quantity + SumSeq(Tail(s))

\* every order a queryset without order_by may return the rows of S in
Orders(S) ==
    {s \in [1..Cardinality(S) -> S] :
        \A i, j \in 1..Cardinality(S) : s[i] = s[j] => i = j}

\* Model.save() of a loaded row: UPDATE by primary key, INSERT when no row has it
SaveItem(db, item) == {r \in db : r.id # item.id} \cup {item}

\* Model.delete(): DELETE by primary key
DeleteItem(db, item) == {r \in db : r.id # item.id}

-----------------------------------------------------------------------------
(* views.add_to_cart *)

\* the try/except around int(request.POST.get('quantity', 1))
QuantityFromPostNoDefault(raw) ==
    IF raw = {} THEN 1
    ELSE LET r == IntOfStr(CHOOSE s \in raw : TRUE)
         IN  IF ~r.ok THEN 1 ELSE IF r.val < 0 THEN 1 ELSE r.val

QuantityFromPost(raw) ==
    IF raw = {} THEN 1
    ELSE LET r == IntOfStr(CHOOSE s \in raw : TRUE)
         IN  IF ~r.ok THEN 1 ELSE IF r.val <= 0 THEN 1 ELSE r.val

\* the lookup of CartItem.objects.get_or_create(cart=cart, product=product)
CartItemLookupNone(items, cartId, pid) == {}

CartItemLookup(items, cartId, pid) ==
    {i \in items : i.cart = cartId /\ i.product = pid}

AddToCart(u, pid, raw) ==
    /\ u \in users
    /\ UNCHANGED <<users, profiles, wishlists, wishProducts, pc, loc, faults>>
    /\ IF pid \notin Products
       THEN \* get_object_or_404(Product, pr_id=product_id)
            /\ resp' = [NoResp EXCEPT !.op = "add", !.user = u, !.arg = pid,
                                      !.msg = "404"]
            /\ UNCHANGED <<carts, cartItems, seq>>
       ELSE LET gc       == GetOrCreateByUser(carts, seq.cart, u)
                quantity == QuantityFromPost(raw)
                found    == CartItemLookup(cartItems, gc.row.id, pid)
                out(m)   == [NoResp EXCEPT !.op = "add", !.user = u, !.arg = pid,
                                           !.msg = m]
            IN  /\ carts' = gc.rows
                /\ CASE Cardinality(found) = 0 ->
                          /\ seq.item <= MaxItemId
                          /\ cartItems' = cartItems \cup
                                {[id |-> seq.item, cart |-> gc.row.id,
                                  product |-> pid, quantity |-> quantity]}
                          /\ seq' = [seq EXCEPT !.cart = gc.next, !.item = @ + 1]
                          /\ resp' = out("added")
                     [] Cardinality(found) = 1 ->
                          LET it == CHOOSE i \in found : TRUE
                          IN  /\ it.quantity + quantity <= MaxQty
                              /\ cartItems' = SaveItem(cartItems,
                                    [it EXCEPT !.quantity = @ + quantity])
                              /\ seq' = [seq EXCEPT !.cart = gc.next]
                              /\ resp' = out("merged")
                     [] OTHER ->
                          \* get() raises MultipleObjectsReturned: a server error
                          /\ cartItems' = cartItems
                          /\ seq' = [seq EXCEPT !.cart = gc.next]
                          /\ resp' = out("500")

-----------------------------------------------------------------------------
(* views.cart *)

\* cart.items.select_related('product').all()
CartItemsOf(items, cartId) == {i \in items : i.cart = cartId}

\* The loop of the POST branch over the evaluated queryset `cache`, from
\* position i on. int() of a supplied value may raise ValueError, which ends
\* the loop where it stands (ok = FALSE); the rows saved or deleted before
\* stay saved or deleted, and `cache` keeps the objects as the loop left them.
RECURSIVE BulkLoop(_, _, _, _)
BulkLoop(cache, post, i, db) ==
    IF i > Len(cache) THEN [db |-> db, cache |-> cache, ok |-> TRUE]
    ELSE LET item == cache[i]
             r    == IF item.id \in DOMAIN post
                     THEN IntOfStr(post[item.id])
                     ELSE [ok |-> TRUE, val |-> item.quantity]
         IN  IF ~r.ok THEN [db |-> db, cache |-> cache, ok |-> FALSE]
             ELSE IF r.val > 0
             THEN LET saved == [item EXCEPT !.quantity = r.val]
                  IN  BulkLoop([cache EXCEPT ![i] = saved], post, i + 1,
                               SaveItem(db, saved))
             ELSE BulkLoop(cache, post, i + 1, DeleteItem(db, item))

CartGet(u) ==
    /\ u \in users
    /\ UNCHANGED <<users, profiles, wishlists, cartItems, wishProducts,
                   pc, loc, faults>>
    /\ LET gc == GetOrCreateByUser(carts, seq.cart, u)
       IN  /\ carts' = gc.rows
           /\ seq' = [seq EXCEPT !.cart = gc.next]
           /\ \E cache \in Orders(CartItemsOf(cartItems, gc.row.id)) :
                resp' = [NoResp EXCEPT !.op = "cart_get", !.user = u,
                                       !.total = {SumSeq(cache)}]

CartPost(u, post) ==
    /\ u \in users
    /\ UNCHANGED <<users, profiles, wishlists, wishProducts, pc, loc, faults>>
    /\ LET gc == GetOrCreateByUser(carts, seq.cart, u)
       IN  /\ carts' = gc.rows
           /\ seq' = [seq EXCEPT !.cart = gc.next]
           /\ \E cache \in Orders(CartItemsOf(cartItems, gc.row.id)) :
                LET r  == BulkLoop(cache, post, 1, cartItems)
                    fk == \E i \in cartItems :
                             i.cart # gc.row.id /\ i.id \in DOMAIN post
                IN  /\ cartItems' = r.db
                    /\ resp' =
                         IF r.ok
                         THEN [NoResp EXCEPT !.op = "cart_post", !.user = u,
                                             !.foreign = fk, !.msg = "updated"]
                         ELSE [NoResp EXCEPT !.op = "cart_post", !.user = u,
                                             !.foreign = fk, !.msg = "invalid",
                                             !.total = {SumSeq(r.cache)}]

-----------------------------------------------------------------------------
(* views.remove_from_cart *)

\* get_object_or_404(CartItem, id=item_id, cart__user=request.user)
OwnedItemAnyUser(items, cartRows, id, u) == {i \in items : i.id = id}

OwnedItem(items, cartRows, id, u) ==
    {i \in items : i.id = id /\ \E c \in cartRows : c.id = i.cart /\ c.user = u}

RemoveFromCart(u, id) ==
    /\ u \in users
    /\ UNCHANGED <<users, carts, profiles, wishlists, wishProducts, seq,
                   pc, loc, faults>>
    /\ LET found == OwnedItem(cartItems, carts, id, u)
       IN  IF found = {}
           THEN \* Http404 is caught by `except Exception`
                /\ cartItems' = cartItems
                /\ resp' = [NoResp EXCEPT !.op = "remove", !.user = u,
                                          !.arg = id, !.msg = "error"]
           ELSE /\ cartItems' = DeleteItem(cartItems, CHOOSE i \in found : TRUE)
                /\ resp' = [NoResp EXCEPT !.op = "remove", !.user = u,
                                          !.arg = id, !.msg = "removed"]

-----------------------------------------------------------------------------
(* The cart service, one request at a time *)

\* quantity texts a request may carry
QtyInputs ==
    {<<>>, <<"x">>, <<"0">>, <<"-", "2">>, <<"1">>, <<" ", "2">>, <<"1", ".", "5">>}

BulkInputs == {<<"0">>, <<"2">>, <<"x">>}

\* a POST body of the cart page: quantity_<id> fields for some item ids
PostBodies(ids) == UNION {[K -> BulkInputs] : K \in SUBSET ids}

\* both users have registered, and registration gave each a cart
Init ==
    /\ users = Users
    /\ carts = {[id |-> 1, user |-> "a"], [id |-> 2, user |-> "b"]}
    /\ profiles = {} /\ wishlists = {}
    /\ cartItems = {} /\ wishProducts = {}
    /\ seq = [InitSeq EXCEPT !.cart = 3]
    /\ resp = NoResp
    /\ pc = <<>> /\ loc = <<>> /\ faults = 0

Next ==
    \/ \E u \in Users, pid \in ProductIdInputs, raw \in {{}} \cup {{s} : s \in QtyInputs} :
          AddToCart(u, pid, raw)
    \/ \E u \in Users : CartGet(u)
    \/ \E u \in Users, post \in PostBodies({i.id : i \in cartItems}) : CartPost(u, post)
    \/ \E u \in Users, id \in 1..MaxItemId : RemoveFromCart(u, id)

Spec == Init /\ [][Next]_vars

-----------------------------------------------------------------------------
(* Properties of the cart service *)

CartOps == {"add", "cart_get", "cart_post", "remove"}

\* the CartItems in the cart(s) of user u
ItemsOfUser(items, u) ==
    {i \in items : \E c \in carts : c.user = u /\ c.id = i.cart}

RECURSIVE SumSet(_)
SumSet(S) ==
    IF S = {} THEN 0
    ELSE LET i == CHOOSE x \in S : TRUE
         IN  Price[i.product] * i.quantity + SumSet(S \ {i})

\* the POST body gives one of u's items a value that is no integer
NonNumericForOwn(u, post) ==
    \E i \in ItemsOfUser(cartItems, u) :
        i.id \in DOMAIN post /\ ~IntOfStr(post[i.id]).ok

\* C1: a bulk update that supplies a non-numeric quantity for one of the
\* caller's items leaves every stored CartItem as it was and reports a
\* validation failure.
C1_BulkUpdateAllOrNothing ==
    [][\A post \in PostBodies({i.id : i \in cartItems}) :
          (resp'.op = "cart_post" /\ CartPost(resp'.user, post)
              /\ NonNumericForOwn(resp'.user, post))
          => (cartItems' = cartItems /\ resp'.msg = "invalid")]_vars

\* C3: at most one CartItem per (cart, product) pair, in every state that
\* add-item, bulk-update and remove-item requests can reach one after another.
C3_OneItemPerCartProduct ==
    \A i, j \in cartItems :
        (i.cart = j.cart /\ i.product = j.product) => i = j

\* the same product was added again and the cart holds it in one row
C3_Witness ==
    /\ resp.op = "add" /\ resp.msg = "merged"
    /\ Cardinality({i \in ItemsOfUser(cartItems, resp.user) :
                       i.product = resp.arg}) = 1

\* C5: a cart request of user A leaves the CartItems of every other user as
\* they were; remove-item deletes the item only when it is in A's cart, and
\* otherwise reports a failure and changes nothing.
C5_NoCrossUserChange ==
    [][resp'.op \in CartOps =>
         /\ \A b \in Users \ {resp'.user} :
               ItemsOfUser(cartItems', b) = ItemsOfUser(cartItems, b)
         /\ resp'.op = "remove" =>
               LET own == {i \in ItemsOfUser(cartItems, resp'.user) :
                              i.id = resp'.arg}
               IN  IF own = {}
                   THEN cartItems' = cartItems /\ resp'.msg = "error"
                   ELSE cartItems' = cartItems \ own /\ resp'.msg = "removed"]_vars

\* A asked to remove an item that exists in B's cart; it is still there
C5_Witness ==
    /\ resp.op = "remove" /\ resp.msg = "error"
    /\ \E i \in cartItems : i.id = resp.arg /\ i \notin ItemsOfUser(cartItems, resp.user)

\* the quantity the add-item contract asks for: the requested one when it is
\* an integer above 0, and 1 otherwise
RequestedQuantity(raw) ==
    IF raw = {} THEN 1
    ELSE LET r == IntOfStr(CHOOSE s \in raw : TRUE)
         IN  IF r.ok /\ r.val > 0 THEN r.val ELSE 1

AddInputs == {{}} \cup {{s} : s \in QtyInputs}

\* C6: add-item of an existing product with normalised quantity n: an item
\* the cart already holds for the product gets quantity q + n (reported as
\* merged), otherwise a new item with quantity n appears (reported as added);
\* every other CartItem is unchanged.
C6_AddItemMerges ==
    [][\A raw \in AddInputs :
          (resp'.op = "add" /\ resp'.arg \in Products
              /\ AddToCart(resp'.user, resp'.arg, raw))
          => LET n   == RequestedQuantity(raw)
                 old == {i \in ItemsOfUser(cartItems, resp'.user) :
                            i.product = resp'.arg}
             IN  IF old # {}
                 THEN /\ resp'.msg = "merged"
                      /\ \E i \in old :
                            cartItems' = (cartItems \ {i}) \cup
                                {[i EXCEPT !.quantity = i.quantity + n]}
                 ELSE /\ resp'.msg = "added"
                      /\ cartItems \subseteq cartItems'
                      /\ \E j \in cartItems' \ cartItems :
                            /\ cartItems' = cartItems \cup {j}
                            /\ j.product = resp'.arg /\ j.quantity = n
                            /\ j \in ItemsOfUser(cartItems', resp'.user)]_vars

\* an add-item found the product in the cart and raised its quantity
C6_Witness ==
    /\ resp.op = "add" /\ resp.msg = "merged"
    /\ \E i \in ItemsOfUser(cartItems, resp.user) :
          i.product = resp.arg /\ i.quantity >= 2

\* C7: the total the cart view returns is the sum of price x quantity over
\* the CartItems stored in the caller's cart when the response is produced.
C7_TotalMatchesStore ==
    resp.total # {} =>
        resp.total = {SumSet(ItemsOfUser(cartItems, resp.user))}

-----------------------------------------------------------------------------
(* views.add_to_wishlist, views.remove_from_wishlist *)

\* largest id handed out for a row of the wishlist's product table
MaxWishRowId == 3

\* user_wishlist.products.filter(pr_id=product_id).exists()
WishlistHasNever(rows, wid, pid) == FALSE

WishlistHas(rows, wid, pid) ==
    \E r \in rows : r.wishlist = wid /\ r.product = pid

\* user_wishlist.products.add(product): inserts the pair unless it is there
M2MAdd(rows, next, wid, pid) ==
    IF \E r \in rows : r.wishlist = wid /\ r.product = pid
    THEN [rows |-> rows, next |-> next]
    ELSE [rows |-> rows \cup {[id |-> next, wishlist |-> wid, product |-> pid]},
          next |-> next + 1]

\* user_wishlist.products.remove(product)
M2MRemove(rows, wid, pid) ==
    {r \in rows : ~(r.wishlist = wid /\ r.product = pid)}

AddToWishlist(u, pid) ==
    /\ u \in users
    /\ UNCHANGED <<users, carts, profiles, cartItems, pc, loc, faults>>
    /\ IF pid \notin Products
       THEN \* get_object_or_404(Product, pr_id=product_id)
            /\ resp' = [NoResp EXCEPT !.op = "wl_add", !.user = u, !.arg = pid,
                                      !.msg = "404"]
            /\ UNCHANGED <<wishlists, wishProducts, seq>>
       ELSE LET gc == GetOrCreateByUser(wishlists, seq.wishlist, u)
            IN  /\ wishlists' = gc.rows
                /\ IF WishlistHas(wishProducts, gc.row.id, pid)
                   THEN /\ wishProducts' = wishProducts
                        /\ seq' = [seq EXCEPT !.wishlist = gc.next]
                        /\ resp' = [NoResp EXCEPT !.op = "wl_add", !.user = u,
                                                  !.arg = pid, !.msg = "already"]
                   ELSE LET a == M2MAdd(wishProducts, seq.wish, gc.row.id, pid)
                        IN  /\ seq.wish <= MaxWishRowId
                            /\ wishProducts' = a.rows
                            /\ seq' = [seq EXCEPT !.wishlist = gc.next,
                                                  !.wish = a.next]
                            /\ resp' = [NoResp EXCEPT !.op = "wl_add", !.user = u,
                                                      !.arg = pid, !.msg = "added"]

RemoveFromWishlist(u, pid) ==
    /\ u \in users
    /\ UNCHANGED <<users, carts, profiles, cartItems, pc, loc, faults>>
    /\ IF pid \notin Products
       THEN \* Http404 is caught by `except Exception`
            /\ resp' = [NoResp EXCEPT !.op = "wl_remove", !.user = u,
                                      !.arg = pid, !.msg = "error"]
            /\ UNCHANGED <<wishlists, wishProducts, seq>>
       ELSE LET gc == GetOrCreateByUser(wishlists, seq.wishlist, u)
            IN  /\ wishlists' = gc.rows
                /\ seq' = [seq EXCEPT !.wishlist = gc.next]
                /\ IF WishlistHas(wishProducts, gc.row.id, pid)
                   THEN /\ wishProducts' = M2MRemove(wishProducts, gc.row.id, pid)
                        /\ resp' = [NoResp EXCEPT !.op = "wl_remove", !.user = u,
                                                  !.arg = pid, !.msg = "removed"]
                   ELSE /\ wishProducts' = wishProducts
                        /\ resp' = [NoResp EXCEPT !.op = "wl_remove", !.user = u,
                                                  !.arg = pid, !.msg = "not_present"]

\* views.wishlist: fetch-or-create, then render
ViewWishlist(u) ==
    /\ u \in users
    /\ UNCHANGED <<users, carts, profiles, cartItems, wishProducts, pc, loc, faults>>
    /\ LET gc == GetOrCreateByUser(wishlists, seq.wishlist, u)
       IN  /\ wishlists' = gc.rows
           /\ seq' = [seq EXCEPT !.wishlist = gc.next]
           /\ resp' = [NoResp EXCEPT !.op = "wl_view", !.user = u]

\* both users exist; no wishlist row yet (the handlers fetch-or-create it)
InitWish ==
    /\ users = Users
    /\ carts = {} /\ profiles = {} /\ wishlists = {}
    /\ cartItems = {} /\ wishProducts = {}
    /\ seq = InitSeq
    /\ resp = NoResp
    /\ pc = <<>> /\ loc = <<>> /\ faults = 0

NextWish ==
    \/ \E u \in Users, pid \in ProductIdInputs : AddToWishlist(u, pid)
    \/ \E u \in Users, pid \in ProductIdInputs : RemoveFromWishlist(u, pid)
    \/ \E u \in Users : ViewWishlist(u)

SpecWish == InitWish /\ [][NextWish]_vars

\* the products user u's wishlist holds
WishRowsOf(rows, wls, u) ==
    {x \in rows : \E w \in wls : w.user = u /\ w.id = x.wishlist}

WishSet(rows, wls, u) == {r.product : r \in WishRowsOf(rows, wls, u)}

\* C8: the wishlist holds each product at most once; add of a product that
\* is present changes nothing and reports already-present, otherwise the
\* product is present afterwards; remove of a product that is not present
\* changes nothing and reports not-present, otherwise the product is gone
\* afterwards (so add;add = add and remove;remove = remove).
C8_WishlistIdempotent ==
    [][/\ \A r, s \in wishProducts' :
             (r.wishlist = s.wishlist /\ r.product = s.product) => r = s
       /\ (resp'.op = "wl_add" /\ resp'.arg \in Products) =>
             IF resp'.arg \in WishSet(wishProducts, wishlists, resp'.user)
             THEN wishProducts' = wishProducts /\ resp'.msg = "already"
             ELSE /\ resp'.msg = "added"
                  /\ WishSet(wishProducts', wishlists', resp'.user) =
                        WishSet(wishProducts, wishlists, resp'.user) \cup {resp'.arg}
       /\ (resp'.op = "wl_remove" /\ resp'.arg \in Products) =>
             IF resp'.arg \notin WishSet(wishProducts, wishlists, resp'.user)
             THEN wishProducts' = wishProducts /\ resp'.msg = "not_present"
             ELSE /\ resp'.msg = "removed"
                  /\ WishSet(wishProducts', wishlists', resp'.user) =
                        WishSet(wishProducts, wishlists, resp'.user) \ {resp'.arg}
       /\ resp'.op \in {"wl_add", "wl_remove", "wl_view"} =>
             \A b \in Users \ {resp'.user} :
                WishSet(wishProducts', wishlists', b) = WishSet(wishProducts, wishlists, b)]_vars

\* a product was added a second time: reported as already there, held once
C8_Witness ==
    /\ resp.op = "wl_add" /\ resp.msg = "already"
    /\ Cardinality({r \in WishRowsOf(wishProducts, wishlists, resp.user) :
                       r.product = resp.arg}) = 1

-----------------------------------------------------------------------------
(* views.product_list *)

\* A GET parameter is {} when the key is missing and {v} when it is there.
\* `if category:` and its like skip a missing key and an empty text.
TruthyStr(v) == v # {} /\ v # {""}
TruthyText(v) == v # {} /\ v # {<<>>}
The(v) == CHOOSE x \in v : TRUE

ByCategory(ps, q) ==
    IF TruthyStr(q.category) THEN {p \in ps : p.pr_cate = The(q.category)} ELSE ps

BySeason(ps, q) ==
    IF TruthyStr(q.season) THEN {p \in ps : p.pr_season = The(q.season)} ELSE ps

ByFabric(ps, q) ==
    IF TruthyText(q.fabric)
    THEN {p \in ps : IContains(p.pr_fabric, The(q.fabric))} ELSE ps

\* pr_price__gte=float(price_min), ValueError passed over
ByPriceMinExclusive(ps, q) ==
    IF TruthyText(q.price_min)
    THEN LET f == FloatOfStr(The(q.price_min))
         IN  IF f.ok THEN {p \in ps : p.pr_price * f.den > f.num * 100} ELSE ps
    ELSE ps

ByPriceMin(ps, q) ==
    IF TruthyText(q.price_min)
    THEN LET f == FloatOfStr(The(q.price_min))
         IN  IF f.ok THEN {p \in ps : p.pr_price * f.den >= f.num * 100} ELSE ps
    ELSE ps

\* pr_price__lte=float(price_max), ValueError passed over
ByPriceMax(ps, q) ==
    IF TruthyText(q.price_max)
    THEN LET f == FloatOfStr(The(q.price_max))
         IN  IF f.ok THEN {p \in ps : p.pr_price * f.den <= f.num * 100} ELSE ps
    ELSE ps

ByBrand(ps, q) ==
    IF TruthyText(q.brand)
    THEN {p \in ps : IContains(p.pr_brand, The(q.brand))} ELSE ps

ProductList(q) ==
    /\ resp' = [op |-> "list", query |-> q,
                result |-> {p.pr_id : p \in
                    ByBrand(ByPriceMax(ByPriceMin(ByFabric(BySeason(
                        ByCategory(Catalog, q), q), q), q), q), q)}]
    /\ UNCHANGED <<users, carts, profiles, wishlists, cartItems, wishProducts,
                   seq, pc, loc, faults>>

\* the query strings the model sends
Queries ==
    [category  : {{}, {""}, {"Men"}, {"men"}},
     season    : {{}, {"Summer"}},
     fabric    : {{}, {<<"c", "o">>}, {<<"x">>}},
     price_min : {{}, {<<>>}, {<<"a", "b">>}, {<<"2", "0">>},
                  {<<"1", "0", "0", ".", "5">>}},
     price_max : {{}, {<<"1", "x">>}, {<<"1", "0", "0">>},
                  {<<" ", "1", "0", "0", ".", "5", "0">>}},
     brand     : {{}, {<<"z">>}}]

NoQuery ==
    [category |-> {}, season |-> {}, fabric |-> {}, price_min |-> {},
     price_max |-> {}, brand |-> {}]

InitQuery ==
    /\ users = Users
    /\ carts = {[id |-> 1, user |-> "a"], [id |-> 2, user |-> "b"]}
    /\ profiles = {} /\ wishlists = {}
    /\ cartItems = {[id |-> 1, cart |-> 1, product |-> 1, quantity |-> 1]}
    /\ wishProducts = {}
    /\ seq = [InitSeq EXCEPT !.cart = 3, !.item = 2]
    /\ resp = [op |-> "none", query |-> NoQuery, result |-> {}]
    /\ pc = <<>> /\ loc = <<>> /\ faults = 0

NextQuery == \E q \in Queries : ProductList(q)

SpecQuery == InitQuery /\ [][NextQuery]_vars

\* what the query contract asks of product c: every criterion that is
\* supplied (present and not empty) holds; a price bound counts only when it
\* is a number
NumericBound(v) == TruthyText(v) /\ FloatOfStr(The(v)).ok

Matches(c, q) ==
    /\ TruthyStr(q.category) => c.pr_cate = The(q.category)
    /\ TruthyStr(q.season) => c.pr_season = The(q.season)
    /\ TruthyText(q.fabric) => IContains(c.pr_fabric, The(q.fabric))
    /\ TruthyText(q.brand) => IContains(c.pr_brand, The(q.brand))
    /\ NumericBound(q.price_min) =>
          LET f == FloatOfStr(The(q.price_min))
          IN  c.pr_price * f.den >= f.num * 100
    /\ NumericBound(q.price_max) =>
          LET f == FloatOfStr(The(q.price_max))
          IN  c.pr_price * f.den <= f.num * 100

-----------------------------------------------------------------------------
(* Registration and the post_save handlers of models.py, with the lazy      *)
(* fetch-or-create of the profile, cart and wishlist views running beside   *)
(* them. Every ORM query is one step; requests interleave between steps.    *)

NewUser == "a"
Workers == {"w1", "w2"}
Procs == {"signup"} \cup Workers
Entities == {"cart", "profile", "wishlist"}

\* the receivers of post_save(sender=User), in the order they are connected;
\* guarded: the receiver's body is inside try/except Exception
Handlers ==
    <<[h |-> "create_user_profile_and_related_objects", e |-> "cart", guarded |-> TRUE],
      [h |-> "create_user_profile_and_related_objects", e |-> "profile", guarded |-> TRUE],
      [h |-> "create_user_profile_and_related_objects", e |-> "wishlist", guarded |-> TRUE],
      [h |-> "create_user_cart", e |-> "cart", guarded |-> FALSE],
      [h |-> "create_user_profile", e |-> "profile", guarded |-> FALSE],
      [h |-> "create_user_wishlist", e |-> "wishlist", guarded |-> FALSE]>>

\* the first receiver after the guarded one
FirstSeparate == CHOOSE i \in 1..Len(Handlers) :
    ~Handlers[i].guarded /\ \A j \in 1..(i - 1) : Handlers[j].guarded

\* user = models.OneToOneField(User): the user column is unique
UserUniqueExceptCart(e) == e # "cart"

UserUnique(e) == TRUE

Table(e) ==
    CASE e = "cart" -> carts [] e = "profile" -> profiles [] e = "wishlist" -> wishlists

RowsOf(e, u) == {r \in Table(e) : r.user = u}

SetTable(e, rows) ==
    /\ carts' = IF e = "cart" THEN rows ELSE carts
    /\ profiles' = IF e = "profile" THEN rows ELSE profiles
    /\ wishlists' = IF e = "wishlist" THEN rows ELSE wishlists

IdleLoc ==
    [i |-> 0, e |-> "", step |-> "", result |-> "", err |-> "",
     conflict |-> FALSE, faulted |-> FALSE]

\* get_or_create returned: the next receiver, or login and the success page;
\* a view goes on to render
AfterReturn(p) ==
    IF p = "signup"
    THEN IF loc[p].i < Len(Handlers)
         THEN [pc |-> "provision",
               loc |-> [loc[p] EXCEPT !.i = @ + 1, !.step = "get",
                                      !.e = Handlers[loc[p].i + 1].e]]
         ELSE [pc |-> "done", loc |-> [loc[p] EXCEPT !.result = "success", !.step = ""]]
    ELSE [pc |-> "done", loc |-> [loc[p] EXCEPT !.result = "ok", !.step = ""]]

\* get_or_create raised: a guarded receiver prints and returns, so dispatch
\* goes on with the next receiver; from any other receiver the exception
\* leaves form.save() and signup's except reports it; a view answers 500
AfterRaise(p, err, fault) ==
    IF p = "signup" /\ Handlers[loc[p].i].guarded
    THEN [pc |-> "provision",
          loc |-> [loc[p] EXCEPT !.i = FirstSeparate, !.step = "get",
                                 !.e = Handlers[FirstSeparate].e,
                                 !.faulted = @ \/ fault]]
    ELSE [pc |-> "done",
          loc |-> [loc[p] EXCEPT !.result = "error", !.err = err, !.step = "",
                                 !.faulted = @ \/ fault]]

Move(p, to) ==
    /\ pc' = [pc EXCEPT ![p] = to.pc]
    /\ loc' = [loc EXCEPT ![p] = to.loc]

\* form.save(): the User row is inserted, then post_save is sent
SignupSave ==
    /\ pc["signup"] = "start"
    /\ users' = users \cup {NewUser}
    /\ Move("signup", [pc |-> "provision",
                       loc |-> [IdleLoc EXCEPT !.i = 1, !.step = "get",
                                               !.e = Handlers[1].e]])
    /\ UNCHANGED <<carts, profiles, wishlists, cartItems, wishProducts, seq,
                   resp, faults>>

\* form.save() fails on the User insert itself: no row, the error page
SignupSaveFails ==
    /\ pc["signup"] = "start"
    /\ faults < MaxFaults
    /\ faults' = faults + 1
    /\ Move("signup", [pc |-> "done",
                       loc |-> [IdleLoc EXCEPT !.result = "error",
                                               !.err = "OperationalError"]])
    /\ UNCHANGED <<users, carts, profiles, wishlists, cartItems, wishProducts,
                   seq, resp>>

\* a view that fetch-or-creates one of the rows starts (login is required,
\* so the User row exists): profile, cart / add_to_cart, the wishlist views
WorkerStart(w, e) ==
    /\ pc[w] = "idle"
    /\ NewUser \in users
    /\ Move(w, [pc |-> "goc", loc |-> [IdleLoc EXCEPT !.step = "get", !.e = e]])
    /\ UNCHANGED <<users, carts, profiles, wishlists, cartItems, wishProducts,
                   seq, resp, faults>>

\* the same client sends another request
WorkerAgain(w) ==
    /\ pc[w] = "done"
    /\ Move(w, [pc |-> "idle", loc |-> IdleLoc])
    /\ UNCHANGED <<users, carts, profiles, wishlists, cartItems, wishProducts,
                   seq, resp, faults>>

InGoc(p) == pc[p] \in {"provision", "goc"}

\* get_or_create, first query: self.get(**kwargs)
GocGet(p) ==
    /\ InGoc(p) /\ loc[p].step = "get"
    /\ LET n == Cardinality(RowsOf(loc[p].e, NewUser))
       IN  CASE n = 1 -> Move(p, AfterReturn(p))
             [] n = 0 -> Move(p, [pc |-> pc[p],
                                  loc |-> [loc[p] EXCEPT !.step = "create"]])
             [] OTHER -> Move(p, AfterRaise(p, "MultipleObjectsReturned", FALSE))
    /\ UNCHANGED <<users, carts, profiles, wishlists, cartItems, wishProducts,
                   seq, resp, faults>>

\* get_or_create, after DoesNotExist: self.create(**params) in a savepoint;
\* the unique user column turns a second insert into IntegrityError, which
\* get_or_create answers with a second get
GocCreate(p) ==
    /\ InGoc(p) /\ loc[p].step = "create"
    /\ LET e == loc[p].e
       IN  IF UserUnique(e) /\ RowsOf(e, NewUser) # {}
           THEN /\ Move(p, [pc |-> pc[p],
                            loc |-> [loc[p] EXCEPT !.step = "reget", !.conflict = TRUE]])
                /\ UNCHANGED <<carts, profiles, wishlists, seq>>
           ELSE /\ SetTable(e, Table(e) \cup {[id |-> seq[e], user |-> NewUser]})
                /\ seq' = [seq EXCEPT ![e] = @ + 1]
                /\ Move(p, AfterReturn(p))
    /\ UNCHANGED <<users, cartItems, wishProducts, resp, faults>>

\* get_or_create, after IntegrityError: self.get(**kwargs) again, and the
\* IntegrityError is raised when there still is no row
GocReget(p) ==
    /\ InGoc(p) /\ loc[p].step = "reget"
    /\ LET n == Cardinality(RowsOf(loc[p].e, NewUser))
       IN  CASE n = 1 -> Move(p, AfterReturn(p))
             [] n = 0 -> Move(p, AfterRaise(p, "IntegrityError", FALSE))
             [] OTHER -> Move(p, AfterRaise(p, "MultipleObjectsReturned", FALSE))
    /\ UNCHANGED <<users, carts, profiles, wishlists, cartItems, wishProducts,
                   seq, resp, faults>>

\* the store fails on the query a get_or_create is about to run
GocFault(p) ==
    /\ InGoc(p)
    /\ faults < MaxFaults
    /\ faults' = faults + 1
    /\ Move(p, AfterRaise(p, "OperationalError", TRUE))
    /\ UNCHANGED <<users, carts, profiles, wishlists, cartItems, wishProducts,
                   seq, resp>>

InitProvision ==
    /\ users = {}
    /\ carts = {} /\ profiles = {} /\ wishlists = {}
    /\ cartItems = {} /\ wishProducts = {}
    /\ seq = InitSeq
    /\ resp = NoResp
    /\ pc = [p \in Procs |-> IF p = "signup" THEN "start" ELSE "idle"]
    /\ loc = [p \in Procs |-> IdleLoc]
    /\ faults = 0

NextProvision ==
    \/ SignupSave
    \/ SignupSaveFails
    \/ \E w \in Workers, e \in Entities : WorkerStart(w, e)
    \/ \E w \in Workers : WorkerAgain(w)
    \/ \E p \in Procs : GocGet(p)
    \/ \E p \in Procs : GocCreate(p)
    \/ \E p \in Procs : GocReget(p)
    \/ \E p \in Procs : GocFault(p)

SpecProvision == InitProvision /\ [][NextProvision]_vars

\* C2: never two Profile, Cart or Wishlist rows for the user and no
\* fetch-or-create ends in a duplicate-key error, however the handlers and
\* the views' fetch-or-create calls interleave; a registration that
\* succeeded leaves exactly one row of each, and a fetch-or-create that
\* returned leaves exactly one row of its entity.
C2_ExactlyOneRowEach ==
    /\ \A e \in Entities : Cardinality(RowsOf(e, NewUser)) <= 1
    /\ \A p \in Procs : loc[p].err \notin {"IntegrityError", "MultipleObjectsReturned"}
    /\ (pc["signup"] = "done" /\ loc["signup"].result = "success") =>
          \A e \in Entities : Cardinality(RowsOf(e, NewUser)) = 1
    /\ \A w \in Workers :
          (pc[w] = "done" /\ loc[w].result = "ok") =>
              Cardinality(RowsOf(loc[w].e, NewUser)) = 1

\* a view's insert lost the race for the row, fetched the winner's row and
\* returned; registration succeeded beside it
C2_Witness ==
    /\ \E w \in Workers :
          pc[w] = "done" /\ loc[w].result = "ok" /\ loc[w].conflict
    /\ pc["signup"] = "done" /\ loc["signup"].result = "success"
    /\ \A e \in Entities : Cardinality(RowsOf(e, NewUser)) = 1

\* C4: a storage failure while a post_save handler provisions a row does
\* not fail registration: the User row exists and the request ends as a
\* success, whichever handler the failure occurs in.
C4_ProvisioningFailureSwallowed ==
    (pc["signup"] = "done" /\ loc["signup"].faulted) =>
        (NewUser \in users /\ loc["signup"].result = "success")

-----------------------------------------------------------------------------
(* Two add_to_cart requests of one user for one product, interleaved at     *)
(* their store reads and writes.                                            *)

Racers == {"r1", "r2"}
RaceUser == "a"
RaceProduct == CHOOSE p \in Products : \A q \in Products : p <= q
RaceInputs == {{}, {<<"1">>}, {<<" ", "2">>}}

RaceLoc == [n |-> 0, cart |-> 0, item |-> {}, result |-> ""]

\* lines 143-154: the product and the cart are fetched, the quantity parsed
RaceStart(r, raw) ==
    /\ pc[r] = "start"
    /\ LET gc == GetOrCreateByUser(carts, seq.cart, RaceUser)
       IN  /\ carts' = gc.rows
           /\ seq' = [seq EXCEPT !.cart = gc.next]
           /\ loc' = [loc EXCEPT ![r] = [RaceLoc EXCEPT !.n = QuantityFromPost(raw),
                                                        !.cart = gc.row.id]]
    /\ pc' = [pc EXCEPT ![r] = "lookup"]
    /\ UNCHANGED <<users, profiles, wishlists, cartItems, wishProducts, resp, faults>>

\* CartItem.objects.get_or_create, first query: get(cart=cart, product=product)
RaceLookup(r) ==
    /\ pc[r] = "lookup"
    /\ LET found == CartItemLookup(cartItems, loc[r].cart, RaceProduct)
       IN  CASE Cardinality(found) = 1 ->
                  /\ loc' = [loc EXCEPT ![r].item = found]
                  /\ pc' = [pc EXCEPT ![r] = "save"]
             [] Cardinality(found) = 0 ->
                  /\ loc' = loc
                  /\ pc' = [pc EXCEPT ![r] = "create"]
             [] OTHER ->
                  /\ loc' = [loc EXCEPT ![r].result = "500"]
                  /\ pc' = [pc EXCEPT ![r] = "done"]
    /\ UNCHANGED <<users, carts, profiles, wishlists, cartItems, wishProducts,
                   seq, resp, faults>>

\* get_or_create, after DoesNotExist: create(cart, product, quantity);
\* CartItem declares no uniqueness over (cart, product), so the insert succeeds
RaceCreate(r) ==
    /\ pc[r] = "create"
    /\ cartItems' = cartItems \cup
          {[id |-> seq.item, cart |-> loc[r].cart, product |-> RaceProduct,
            quantity |-> loc[r].n]}
    /\ seq' = [seq EXCEPT !.item = @ + 1]
    /\ loc' = [loc EXCEPT ![r].result = "added"]
    /\ pc' = [pc EXCEPT ![r] = "done"]
    /\ UNCHANGED <<users, carts, profiles, wishlists, wishProducts, resp, faults>>

\* cart_item.quantity += quantity; cart_item.save(): the quantity read at
\* the lookup, plus n, is written back
RaceSave(r) ==
    /\ pc[r] = "save"
    /\ LET it == CHOOSE i \in loc[r].item : TRUE
       IN  cartItems' = SaveItem(cartItems, [it EXCEPT !.quantity = @ + loc[r].n])
    /\ loc' = [loc EXCEPT ![r].result = "merged"]
    /\ pc' = [pc EXCEPT ![r] = "done"]
    /\ UNCHANGED <<users, carts, profiles, wishlists, wishProducts, seq, resp, faults>>

\* the cart holds the product with quantity 1, or does not hold it
InitRace ==
    /\ users = Users
    /\ carts = {[id |-> 1, user |-> "a"], [id |-> 2, user |-> "b"]}
    /\ profiles = {} /\ wishlists = {} /\ wishProducts = {}
    /\ \E q \in {0, 1} :
          /\ cartItems = IF q = 0 THEN {}
                         ELSE {[id |-> 1, cart |-> 1, product |-> RaceProduct,
                                quantity |-> q]}
          /\ seq = [InitSeq EXCEPT !.cart = 3, !.item = IF q = 0 THEN 1 ELSE 2]
          /\ resp = [NoResp EXCEPT !.op = "race", !.arg = q]
    /\ pc = [r \in Racers |-> "start"]
    /\ loc = [r \in Racers |-> RaceLoc]
    /\ faults = 0

NextRace ==
    \/ \E r \in Racers, raw \in RaceInputs : RaceStart(r, raw)
    \/ \E r \in Racers : RaceLookup(r)
    \/ \E r \in Racers : RaceCreate(r)
    \/ \E r \in Racers : RaceSave(r)

SpecRace == InitRace /\ [][NextRace]_vars

\* C10: when both add-item requests are through, the cart holds the product
\* in exactly one CartItem whose quantity is the prior quantity (resp.arg, 0
\* when it was absent) plus both requested quantities.
C10_ConcurrentAddsSerializable ==
    (\A r \in Racers : pc[r] = "done") =>
        \E i \in cartItems :
            /\ CartItemLookup(cartItems, 1, RaceProduct) = {i}
            /\ i.quantity = resp.arg + loc["r1"].n + loc["r2"].n

=============================================================================
